---- MODULE Spec2Model ----
(***************************************************************************)
(* DFPlayer Mini driver (famous_trains): frame codec, transport queue,     *)
(* stream transceiver and the two command-handler engines                  *)
(* (command_handler_as.CommandHandler and dfp_mini.DfpMiniCh/Control).     *)
(* Python indices are 0-based; a Python index i is written i + 1 here.     *)
(***************************************************************************)
EXTENDS Integers, Sequences, FiniteSets, TLC

VARIABLES
    \* ---- CmdPackUnpack (dfp_mini.py) ----
    tx_message,   \* CmdPackUnpack.tx_message: the 8 fields of CMD_FORMAT
    c_phase,      \* codec harness position: "idle" | "packed" | "done"
    c_in,         \* <<command, parameter>> passed to the last pack_tx_ba
    c_frame,      \* bytes returned by the last pack_tx_ba
    c_rx,         \* bytes handed to unpack_rx_ba
    c_out,        \* <<cmd_, param_>> returned by unpack_rx_ba
    c_err,        \* TRUE when unpack_rx_ba printed 'Error in checksum'
    c_reused,     \* TRUE when the last pack_tx_ba started from a tx_message
                  \* that held the checksum of an earlier pack
    \* ---- Queue (uart_os_as.py) ----
    max_len,      \* Queue.max_len
    q_,           \* Queue._q, oldest item first
    len_,         \* Queue._len
    is_data,      \* Queue.is_data (Event): TRUE when set
    is_space,     \* Queue.is_space (Event): TRUE when set
    q_raised,     \* TRUE once rmv_item raised IndexError (empty deque)
    q_last,       \* plain queue exercise: the last call made on the queue
    \* ---- StreamTR.receiver and the task that pops the queue ----
    in_buf,       \* StreamTR.in_buf
    rcv_pc,       \* receiver position: "read" | "wait_space"
    read_log,     \* full-size frames read from the UART so far, in order
    pop_log,      \* items returned by rmv_item so far, in order
    \* ---- engine state: CommandHandler / DfpMiniCh (same field names) ----
    rx_cmd,       \* last received opcode
    rx_param,     \* last received parameter
    track_count,
    ack_ev,       \* Event: TRUE when set
    track_end_ev, \* Event: TRUE when set
    error_ev,     \* Event: TRUE when set
    cons_pc,      \* consume_rx_data task: "run" | "dead" (ended by an exception)
    raised,       \* the exception that ended consume_rx_data, or "none"
    \* ---- CommandHandler only ----
    tx_word,      \* bytearray(BUF_SIZE) sent by send_command
    rx_word,      \* last bytearray popped by consume_rx_data
    current_track,
    prev_track,   \* attribute created by parse_rx_message; "unset" before
    volume,       \* attribute created by parse_rx_message; "unset" before
    \* ---- DfpMiniCh / DfpMiniControl only ----
    track,
    config,       \* [vol |-> .., eq |-> ..] of the config dictionary
    tx_lock,      \* asyncio.Lock: "free" or the task holding it
    lock_q,       \* tasks waiting for tx_lock, first come first
    \* ---- DfPlayer (dfp_player.py) ----
    vol,          \* DfPlayer.vol, 0..VOL_MAX
    eq,           \* DfPlayer.eq
    track_index,  \* DfPlayer._track_index
    \* ---- caller tasks ----
    pc,           \* position of each caller task
    op,           \* the call each task is executing:
                  \* [kind |-> .., cmd |-> .., param |-> ..]
    calls,        \* calls each task has completed
    task_exc,          \* per task: the exception its last call raised, or "none"
    todo,         \* per task: the tracks play_trk_list has still to play
    last_call,    \* per task: [name, arg, from] of its last DfPlayer or
                  \* DfpMiniControl call; from is Len(call_log) at the call
    \* ---- observation of the run ----
    wire,         \* frames transmitted to the device, in order
    call_log,     \* <<task, cmd, param>> of the send calls, in call order
    n_rx,         \* frames consume_rx_data has popped
    last_ba,      \* the frame consume_rx_data popped last
    n_acks,       \* ack frames classified
    n_ret,        \* send calls that have returned
    acked_since,  \* per task: an ack was classified since its frame went out
    play_pending, \* a play-triggering frame went out and no sd_finish since
    fin_since,    \* per task: an sd_finish was classified since its last
                  \* track frame went out
    rst_rx        \* per task: <<cmd, param>> of the frames classified since
                  \* the frame of its reset went out, until reset ended

codec_vars == <<tx_message, c_phase, c_in, c_frame, c_rx, c_out, c_err, c_reused>>

queue_vars == <<max_len, q_, len_, is_data, is_space, q_raised>>

stream_vars == <<in_buf, rcv_pc, read_log, pop_log>>

eng_vars == <<rx_cmd, rx_param, track_count, ack_ev, track_end_ev, error_ev,
              cons_pc, raised>>

ch_vars == <<tx_word, rx_word, current_track, prev_track, volume>>

dfp_vars == <<track, config, tx_lock, lock_q>>

player_vars == <<vol, eq, track_index>>

task_vars == <<pc, op, calls>>

call_vars == <<task_exc, todo, last_call>>

obs_vars == <<wire, call_log, n_rx, last_ba, n_acks, n_ret, acked_since,
              play_pending>>

play_obs == <<fin_since, rst_rx>>

vars == <<codec_vars, queue_vars, q_last, stream_vars, eng_vars, ch_vars, dfp_vars,
          player_vars, task_vars, call_vars, obs_vars, play_obs>>

-----------------------------------------------------------------------------
(* Frame codec: dfp_mini.CmdPackUnpack *)

CMD_TEMPLATE == <<126, 255, 6, 0, 1, 0, 0, 239>>

CMD_I == 3
PRM_I == 5
CSM_I == 6
CSM_M == 7
CSM_L == 8

\* Opcode table of CommandHandler.hex_str
hex_str_keys ==
    {1, 2, 3, 4, 5, 6, 7, 8, 12, 13, 14, 15, 17,
     58, 59, 61, 63, 64, 65, 66, 67, 68, 72, 76}

\* Sample of 16-bit parameters: both bytes zero, low byte only, high byte
\* only, both bytes, all ones.
ParamSamples == {0, 5, 4660, 65535}

RECURSIVE SumSlice(_, _, _)
\* sum(bytes_[lo:hi]) of Python
SumSlice(bytes_, lo, hi) ==
    IF lo >= hi THEN 0 ELSE bytes_[lo + 1] + SumSlice(bytes_, lo + 1, hi)

\* struct.pack('>BBBBBHHB', *m): five bytes, two big-endian 16-bit, one byte
struct_pack(m) ==
    <<m[1] % 256, m[2] % 256, m[3] % 256, m[4] % 256, m[5] % 256,
      (m[6] \div 256) % 256, m[6] % 256,
      (m[7] \div 256) % 256, m[7] % 256,
      m[8] % 256>>

\* struct.unpack('>BBBBBHHB', bytes_)
struct_unpack(bytes_) ==
    <<bytes_[1], bytes_[2], bytes_[3], bytes_[4], bytes_[5],
      bytes_[6] * 256 + bytes_[7],
      bytes_[8] * 256 + bytes_[9],
      bytes_[10]>>

check_checksum_8bit(bytes_) ==
    (SumSlice(bytes_, 1, CSM_M) + bytes_[CSM_M + 1] * 256 + bytes_[CSM_L + 1])
        % 256 = 0

\* CmdPackUnpack.check_checksum: True if checksum is valid
check_checksum(bytes_) ==
    (SumSlice(bytes_, 1, CSM_M) + bytes_[CSM_M + 1] * 256 + bytes_[CSM_L + 1])
        % 65536 = 0

pack_tx_message_stale(txm, command, parameter) ==
    LET m1 == [txm EXCEPT ![CMD_I + 1] = command, ![PRM_I + 1] = parameter]
        bytes_ == struct_pack(m1)
    IN  [m1 EXCEPT ![CSM_I + 1] = (-SumSlice(bytes_, 1, CSM_L + 1)) % 65536]

\* CmdPackUnpack.pack_tx_ba: the tx_message it leaves behind
pack_tx_message(txm, command, parameter) ==
    LET m1 == [txm EXCEPT ![CMD_I + 1] = command, ![PRM_I + 1] = parameter]
        bytes_ == struct_pack(m1)
    IN  [m1 EXCEPT ![CSM_I + 1] = (-SumSlice(bytes_, 1, CSM_M)) % 65536]

\* CmdPackUnpack.pack_tx_ba: the bytes it returns
pack_tx_ba(txm, command, parameter) ==
    struct_pack(pack_tx_message(txm, command, parameter))

unpack_rx_ba_no_check(bytes_) ==
    <<struct_unpack(bytes_)[CMD_I + 1], struct_unpack(bytes_)[PRM_I + 1]>>

\* CmdPackUnpack.unpack_rx_ba: <<cmd_, param_>>, <<0, 0>> on a bad checksum
unpack_rx_ba(bytes_) ==
    IF check_checksum(bytes_)
    THEN <<struct_unpack(bytes_)[CMD_I + 1], struct_unpack(bytes_)[PRM_I + 1]>>
    ELSE <<0, 0>>

\* the frame with the byte at Python offset off replaced by v
ReplaceByte(bytes_, off, v) == [bytes_ EXCEPT ![off + 1] = v]

CodecInit ==
    /\ tx_message = CMD_TEMPLATE
    /\ c_phase = "idle"
    /\ c_in = <<0, 0>>
    /\ c_frame = <<>>
    /\ c_rx = <<>>
    /\ c_out = <<0, 0>>
    /\ c_err = FALSE
    /\ c_reused = FALSE

\* pack_tx_ba(command, parameter) on the codec object as earlier packs left it
Pack(command, parameter) ==
    /\ c_phase = "idle"
    /\ tx_message' = pack_tx_message(tx_message, command, parameter)
    /\ c_frame' = pack_tx_ba(tx_message, command, parameter)
    /\ c_in' = <<command, parameter>>
    /\ c_reused' = (tx_message[CSM_I + 1] # 0)
    /\ c_phase' = "packed"
    /\ UNCHANGED <<c_rx, c_out, c_err>>

\* unpack_rx_ba(bytes_)
Unpack(bytes_) ==
    /\ c_phase = "packed"
    /\ c_rx' = bytes_
    /\ c_out' = unpack_rx_ba(bytes_)
    /\ c_err' = ~check_checksum(bytes_)
    /\ c_phase' = "done"
    /\ UNCHANGED <<tx_message, c_in, c_frame, c_reused>>

\* the frame objects are dropped; the codec object (tx_message) lives on
NextFrame ==
    /\ c_phase = "done"
    /\ c_phase' = "idle"
    /\ c_in' = <<0, 0>>
    /\ c_frame' = <<>>
    /\ c_rx' = <<>>
    /\ c_out' = <<0, 0>>
    /\ c_err' = FALSE
    /\ c_reused' = FALSE
    /\ UNCHANGED tx_message

\* the line delivers the frame as it was packed
UnpackIntact ==
    /\ c_phase = "packed"
    /\ Unpack(c_frame)

\* the line replaces the byte at offset off by a different value v
UnpackCorrupted(off, v) ==
    /\ c_phase = "packed"
    /\ v # c_frame[off + 1]
    /\ Unpack(ReplaceByte(c_frame, off, v))

-----------------------------------------------------------------------------
(* Transport queue: uart_os_as.Queue *)

\* capacities the Queue objects are built with
MaxCap == 3

\* payloads of the plain queue exercise
QItems == {"a", "b", "c", "d"}

\* Queue.__init__(max_len)
QueueInit(n) ==
    /\ max_len = n
    /\ q_ = <<>>
    /\ len_ = 0
    /\ is_data = FALSE
    /\ is_space = TRUE
    /\ q_raised = FALSE
    /\ q_last = "none"

\* deque((), max_len).append(item): a deque that already holds max_len
\* items discards its oldest one
deque_append(d, item) ==
    IF Len(d) < max_len THEN Append(d, item) ELSE Append(Tail(d), item)

add_item_no_clear(item) ==
    /\ q_' = IF len_ < max_len THEN Append(q_, item) ELSE q_
    /\ is_data' = IF len_ < max_len THEN TRUE ELSE is_data
    /\ len_' = IF len_ < max_len THEN len_ + 1 ELSE len_
    /\ is_space' = is_space
    /\ UNCHANGED <<max_len, q_raised>>

add_item_front(item) ==
    /\ q_' = IF len_ < max_len THEN <<item>> \o q_ ELSE q_
    /\ is_data' = IF len_ < max_len THEN TRUE ELSE is_data
    /\ len_' = IF len_ < max_len THEN len_ + 1 ELSE len_
    /\ is_space' = IF len_' = max_len THEN FALSE ELSE is_space
    /\ UNCHANGED <<max_len, q_raised>>

\* Queue.add_item(item)
add_item(item) ==
    /\ q_' = IF len_ < max_len THEN deque_append(q_, item) ELSE q_
    /\ is_data' = IF len_ < max_len THEN TRUE ELSE is_data
    /\ len_' = IF len_ < max_len THEN len_ + 1 ELSE len_
    /\ is_space' = IF len_' = max_len THEN FALSE ELSE is_space
    /\ UNCHANGED <<max_len, q_raised>>

\* Queue.rmv_item(): _len is decremented before popleft(), which raises
\* IndexError on an empty deque and leaves the rest of the method undone
rmv_item ==
    /\ len_' = len_ - 1
    /\ IF q_ = <<>>
       THEN /\ q_raised' = TRUE
            /\ UNCHANGED <<q_, is_space, is_data>>
       ELSE /\ q_' = Tail(q_)
            /\ is_space' = TRUE
            /\ is_data' = IF len_' = 0 THEN FALSE ELSE is_data
            /\ UNCHANGED q_raised
    /\ UNCHANGED max_len

\* the item rmv_item returns
rmv_item_result == Head(q_)

-----------------------------------------------------------------------------
(* Stream transceiver: uart_os_as.StreamTR *)

\* StreamTR buf_len: the frame size
buf_len == 10

\* frames read from the UART over one run
MaxRx == 4

\* bytearray(buf_len)
ZeroBuf == [i \in 1..buf_len |-> 0]

StreamInit ==
    /\ in_buf = ZeroBuf
    /\ rcv_pc = "read"
    /\ read_log = <<>>
    /\ pop_log = <<>>

\* s_reader.readinto(in_buf) returning Len(chunk) bytes
readinto(chunk) ==
    [i \in 1..buf_len |-> IF i <= Len(chunk) THEN chunk[i] ELSE in_buf[i]]

receiver_read_no_wait(chunk) ==
    /\ rcv_pc = "read"
    /\ Len(read_log) < MaxRx
    /\ in_buf' = readinto(chunk)
    /\ IF Len(chunk) = buf_len
       THEN /\ read_log' = Append(read_log, chunk)
            /\ add_item(in_buf')
            /\ rcv_pc' = "read"
       ELSE /\ UNCHANGED <<read_log, rcv_pc>>
            /\ UNCHANGED queue_vars
    /\ UNCHANGED pop_log

\* StreamTR.receiver, from readinto() returning to the next suspension:
\* a short read is discarded; a full read is queued at once when is_space
\* is set, else the task suspends on is_space
receiver_read(chunk) ==
    /\ rcv_pc = "read"
    /\ Len(read_log) < MaxRx
    /\ in_buf' = readinto(chunk)
    /\ IF Len(chunk) = buf_len
       THEN /\ read_log' = Append(read_log, chunk)
            /\ IF is_space
               THEN /\ add_item(in_buf')
                    /\ rcv_pc' = "read"
               ELSE /\ rcv_pc' = "wait_space"
                    /\ UNCHANGED queue_vars
       ELSE /\ UNCHANGED <<read_log, rcv_pc>>
            /\ UNCHANGED queue_vars
    /\ UNCHANGED pop_log

\* StreamTR.receiver resumed after is_space was set
receiver_resume ==
    /\ rcv_pc = "wait_space"
    /\ is_space
    /\ add_item(in_buf)
    /\ rcv_pc' = "read"
    /\ UNCHANGED <<in_buf, read_log, pop_log>>

\* uart_os_as.main.q_consume: await is_data.wait(); item = rmv_item()
q_consume ==
    /\ is_data
    /\ rmv_item
    /\ pop_log' = Append(pop_log, rmv_item_result)
    /\ UNCHANGED <<in_buf, rcv_pc, read_log>>

-----------------------------------------------------------------------------
(* Caller tasks and the frames the device sends *)

Tasks == {"t1", "t2"}

\* send calls one task makes over one run
MaxCalls == 2

\* frames the consumer pops over one run
MaxFrames == 3

NoCall == [kind |-> "none", cmd |-> 0, param |-> 0]

NoFacadeCall == [name |-> "none", arg |-> <<>>, from |-> 0]

TaskInit ==
    /\ pc = [t \in Tasks |-> "idle"]
    /\ op = [t \in Tasks |-> NoCall]
    /\ calls = [t \in Tasks |-> 0]
    /\ task_exc = [t \in Tasks |-> "none"]
    /\ todo = [t \in Tasks |-> <<>>]
    /\ last_call = [t \in Tasks |-> NoFacadeCall]

ObsInit ==
    /\ wire = <<>>
    /\ call_log = <<>>
    /\ n_rx = 0
    /\ last_ba = ZeroBuf
    /\ n_acks = 0
    /\ n_ret = 0
    /\ acked_since = [t \in Tasks |-> FALSE]
    /\ fin_since = [t \in Tasks |-> FALSE]
    /\ rst_rx = [t \in Tasks |-> <<>>]
    /\ play_pending = FALSE

\* a frame as the device builds it: valid checksum over bytes 1..6
DeviceFrame(cmd, param) ==
    LET hi == (param \div 256) % 256
        lo == param % 256
        csum == (-(255 + 6 + cmd + 0 + hi + lo)) % 65536
    IN  <<126, 255, 6, cmd, 0, hi, lo, csum \div 256, csum % 256, 239>>

\* the same frame with its checksum bytes zeroed (never a valid checksum,
\* bytes 1..6 sum to at least 261)
BadFrame(cmd, param) ==
    [DeviceFrame(cmd, param) EXCEPT ![8] = 0, ![9] = 0]

-----------------------------------------------------------------------------
(* Engine state after construction *)

\* DfpMiniCh._config defaults
DefaultConfig == [vol |-> 15, eq |-> "normal"]

\* CommandHandler.__init__ / DfpMiniCh.__init__: the fields both classes hold
EngInit ==
    /\ rx_cmd = 0
    /\ rx_param = 0
    /\ track_count = 0
    /\ ack_ev = FALSE
    /\ error_ev = FALSE
    /\ cons_pc = "run"
    /\ raised = "none"

\* CommandHandler.__init__: tx_word is pre-loaded from data_template
CommandHandlerInit ==
    /\ tx_word = <<126, 255, 6, 0, 1, 0, 0, 0, 0, 239>>
    /\ rx_word = ZeroBuf
    /\ current_track = 0
    /\ prev_track = "unset"
    /\ volume = "unset"

\* DfpMiniCh.__init__
DfpMiniInit ==
    /\ track = 0
    /\ config = DefaultConfig
    /\ tx_lock = "free"
    /\ lock_q = <<>>

\* DfpMiniCh._config['vol_factor']
vol_factor == 3

\* DfPlayer.__init__, but for track_end_ev.set()
PlayerInit ==
    /\ vol = DefaultConfig.vol \div vol_factor
    /\ eq = DefaultConfig.eq
    /\ track_index = 1

\* Event.set() schedules every task suspended in ack_ev.wait(); a scheduled
\* task returns from wait() even if the event is cleared before it runs
WakeAck(pcs) ==
    [t \in Tasks |-> IF pcs[t] = "wait_ack" THEN "acked" ELSE pcs[t]]

-----------------------------------------------------------------------------
(* command_handler_as.CommandHandler *)

CMD == 3
P_H == 5
P_L == 6
C_H == 7
C_L == 8

\* CommandHandler.play_set: play, next, prev, track, folder_trk, repeat_trk,
\* repeat_all
play_set == {13, 1, 2, 3, 15, 8, 17}

\* hex_fns.slice_reg16: a 16-bit value as (high byte, low byte)
slice_reg16(v) == <<((v % 65536) \div 256), (v % 65536) % 256>>

\* hex_fns.set_reg16: (high byte, low byte) as a 16-bit value
set_reg16(hi, lo) == hi * 256 + lo

\* CommandHandler.get_checksum on a tx_word
get_checksum(word) == slice_reg16(-SumSlice(word, 1, 7))

\* CommandHandler.check_checksum: 0 for a consistent checksum
ch_check_checksum(buf_) ==
    (SumSlice(buf_, 1, C_H) + buf_[C_H + 1] * 256 + buf_[C_L + 1]) % 65536

\* CommandHandler.send_command: the tx_word it builds
send_command_word(word, cmd_hex, param) ==
    LET w1 == [word EXCEPT ![CMD + 1] = cmd_hex,
                           ![P_H + 1] = slice_reg16(param)[1],
                           ![P_L + 1] = slice_reg16(param)[2]]
    IN  [w1 EXCEPT ![C_H + 1] = get_checksum(w1)[1],
                   ![C_L + 1] = get_checksum(w1)[2]]

\* the calls the caller tasks of CommandHandler make: track 5, vol_set 15
CHCalls ==
    {[kind |-> "send_command", cmd |-> 3, param |-> 5],
     [kind |-> "send_command", cmd |-> 6, param |-> 15]}

\* frames the device sends to CommandHandler: ack, ack with bad checksum,
\* sd_fin 5, q_sd_files 9, q_init 2 (storage), q_init 3 (storage and
\* another bit), q_init 1 (no storage), media_remove, opcode outside the
\* table
CHRxFrames ==
    {DeviceFrame(65, 0), BadFrame(65, 0), DeviceFrame(61, 5),
     DeviceFrame(72, 9), DeviceFrame(63, 2), DeviceFrame(63, 3),
     DeviceFrame(63, 1), DeviceFrame(59, 0), DeviceFrame(80, 0)}

\* a send call returns to its caller
Return(t) ==
    /\ pc' = [pc EXCEPT ![t] = "idle"]
    /\ op' = [op EXCEPT ![t] = NoCall]
    /\ calls' = [calls EXCEPT ![t] = calls[t] + 1]
    /\ n_ret' = n_ret + 1

\* CommandHandler.send_command(cmd_str, param), up to "await drain()" in
\* StreamTR.sender: no suspension point precedes the write
send_command(t, call) ==
    /\ pc[t] = "idle"
    /\ calls[t] < MaxCalls
    /\ ack_ev' = FALSE
    /\ tx_word' = send_command_word(tx_word, call.cmd, call.param)
    /\ track_end_ev' = IF call.cmd \in play_set THEN FALSE ELSE track_end_ev
    /\ wire' = Append(wire, tx_word')
    /\ call_log' = Append(call_log, <<t, call.cmd, call.param>>)
    /\ acked_since' = [acked_since EXCEPT ![t] = FALSE]
    /\ play_pending' = IF call.cmd \in play_set THEN TRUE ELSE play_pending
    /\ pc' = [pc EXCEPT ![t] = "drain"]
    /\ op' = [op EXCEPT ![t] = call]
    /\ UNCHANGED <<rx_cmd, rx_param, track_count, error_ev, cons_pc, raised>>
    /\ UNCHANGED <<rx_word, current_track, prev_track, volume>>
    /\ UNCHANGED <<calls, n_rx, last_ba, n_acks, n_ret>>

\* CommandHandler.send_command resumed after drain(): "await ack_ev.wait()"
\* returns at once when ack_ev is set, else the task suspends
send_command_drained(t) ==
    /\ pc[t] = "drain"
    /\ IF ack_ev
       THEN Return(t)
       ELSE /\ pc' = [pc EXCEPT ![t] = "wait_ack"]
            /\ UNCHANGED <<op, calls, n_ret>>
    /\ UNCHANGED <<eng_vars, ch_vars>>
    /\ UNCHANGED <<wire, call_log, n_rx, last_ba, n_acks, acked_since,
                   play_pending>>

\* CommandHandler.send_command resumed by ack_ev.set()
send_command_acked(t) ==
    /\ pc[t] = "acked"
    /\ Return(t)
    /\ UNCHANGED <<eng_vars, ch_vars>>
    /\ UNCHANGED <<wire, call_log, n_rx, last_ba, n_acks, acked_since,
                   play_pending>>

\* the exception parse_rx_message raises on a frame, or "none"
parse_raises(cmd, prm) ==
    CASE cmd \notin hex_str_keys -> "KeyError"
      [] cmd = 63 /\ prm # 2 -> "DFPlayer error: no SD card?"
      [] cmd = 59 -> "DFPlayer error: SD card removed!"
      [] OTHER -> "none"

\* CommandHandler.consume_rx_data, one turn of its loop: rmv_item() returns
\* message_, parse_rx_message(message_) classifies it
consume_rx_data(message_) ==
    LET cmd == message_[CMD + 1]
        prm == set_reg16(message_[P_H + 1], message_[P_L + 1])
        exc == parse_raises(cmd, prm)
    IN  /\ cons_pc = "run"
        /\ n_rx < MaxFrames
        /\ n_rx' = n_rx + 1
        /\ rx_word' = message_
        /\ last_ba' = message_
        /\ raised' = exc
        /\ cons_pc' = IF exc = "none" THEN "run" ELSE "dead"
        /\ ack_ev' = IF cmd = 65 THEN TRUE ELSE ack_ev
        /\ pc' = IF cmd = 65 THEN WakeAck(pc) ELSE pc
        /\ prev_track' = IF cmd = 61 THEN rx_param ELSE prev_track
        /\ track_end_ev' = IF cmd = 61 THEN TRUE ELSE track_end_ev
        /\ error_ev' = IF cmd = 64 THEN TRUE ELSE error_ev
        /\ volume' = IF cmd = 67 THEN rx_param ELSE volume
        /\ track_count' = IF cmd = 72 THEN rx_param ELSE track_count
        /\ current_track' = IF cmd = 76 THEN rx_param ELSE current_track
        /\ rx_cmd' = IF exc = "none" THEN cmd ELSE rx_cmd
        /\ rx_param' = IF exc = "none" THEN prm ELSE rx_param
        /\ n_acks' = IF cmd = 65 THEN n_acks + 1 ELSE n_acks
        /\ acked_since' = IF cmd = 65 THEN [t \in Tasks |-> TRUE]
                          ELSE acked_since
        /\ play_pending' = IF cmd = 61 THEN FALSE ELSE play_pending
        /\ UNCHANGED <<tx_word, op, calls, wire, call_log, n_ret>>

\* the parts of the state the CommandHandler specification never touches
ch_idle_vars ==
    <<codec_vars, queue_vars, q_last, stream_vars, dfp_vars, player_vars,
      call_vars, play_obs>>

CHInit ==
    /\ CodecInit
    /\ QueueInit(MaxCap)
    /\ StreamInit
    /\ EngInit
    /\ track_end_ev = FALSE
    /\ CommandHandlerInit
    /\ DfpMiniInit
    /\ PlayerInit
    /\ TaskInit
    /\ ObsInit

CHSend ==
    /\ \E t \in Tasks, call \in CHCalls : send_command(t, call)
    /\ UNCHANGED ch_idle_vars

CHDrained ==
    /\ \E t \in Tasks : send_command_drained(t)
    /\ UNCHANGED ch_idle_vars

CHAcked ==
    /\ \E t \in Tasks : send_command_acked(t)
    /\ UNCHANGED ch_idle_vars

CHConsume ==
    /\ \E message_ \in CHRxFrames : consume_rx_data(message_)
    /\ UNCHANGED ch_idle_vars

CHNext ==
    \/ CHSend
    \/ CHDrained
    \/ CHAcked
    \/ CHConsume

SpecCH == CHInit /\ [][CHNext]_vars

-----------------------------------------------------------------------------
(* dfp_mini.DfpMiniCh / DfpMiniControl under dfp_player.DfPlayer *)

START_TRACK == 1

\* DfpMiniCh.val_eq
val_eq == <<"normal", "pop", "rock", "jazz", "classic", "bass">>

\* opcodes DfpMiniControl sends that start playback: track (play_track),
\* play
mini_play_cmds == {3, 13}

\* the track numbers the caller tasks pass to DfPlayer.play_track
PlayArgs == {1, 3}

\* frames the device sends to DfpMiniCh: ack, ack with bad checksum,
\* sd_finish 1, qry_sd_files 2, qry_sd_files with bad checksum, media_remove
DfpRxFrames ==
    {DeviceFrame(65, 0), BadFrame(65, 0), DeviceFrame(61, 1),
     DeviceFrame(72, 2), BadFrame(72, 3), DeviceFrame(59, 0)}

\* the track number a track frame carries
track_of(ba_) == set_reg16(ba_[P_H + 1], ba_[P_L + 1])

\* Event.set() of track_end_ev schedules every task suspended in
\* track_end_ev.wait()
WakeTe(pcs) ==
    [t \in Tasks |-> IF pcs[t] = "wait_te" THEN "te_woken" ELSE pcs[t]]

\* the fields only consume_rx_data assigns
rx_side ==
    <<rx_cmd, rx_param, track_count, error_ev, cons_pc, raised, n_rx,
      last_ba, n_acks>>

\* what _send_command touches besides the position of its task
link_vars ==
    <<tx_lock, lock_q, ack_ev, tx_message, wire, call_log, op, acked_since,
      play_pending, fin_since>>

\* _send_command with ack_ev.set() where the code has ack_ev.clear()
mini_send_body_sets_ack(t, cmd_, param_) ==
    /\ tx_lock' = t
    /\ ack_ev' = TRUE
    /\ tx_message' = pack_tx_message(tx_message, cmd_, param_)
    /\ wire' = Append(wire, pack_tx_ba(tx_message, cmd_, param_))
    /\ acked_since' = [acked_since EXCEPT ![t] = FALSE]
    /\ play_pending' = IF cmd_ \in mini_play_cmds THEN TRUE ELSE play_pending
    /\ fin_since' = IF cmd_ = 3 THEN [fin_since EXCEPT ![t] = FALSE]
                    ELSE fin_since
    /\ pc' = [pc EXCEPT ![t] = "put"]

\* the body of "async with self.tx_lock" up to the suspension in
\* "await self.tx_queue.put(...)": the packed frame is handed to the link
mini_send_body(t, cmd_, param_) ==
    /\ tx_lock' = t
    /\ ack_ev' = FALSE
    /\ tx_message' = pack_tx_message(tx_message, cmd_, param_)
    /\ wire' = Append(wire, pack_tx_ba(tx_message, cmd_, param_))
    /\ acked_since' = [acked_since EXCEPT ![t] = FALSE]
    /\ play_pending' = IF cmd_ \in mini_play_cmds THEN TRUE ELSE play_pending
    /\ fin_since' = IF cmd_ = 3 THEN [fin_since EXCEPT ![t] = FALSE]
                    ELSE fin_since
    /\ pc' = [pc EXCEPT ![t] = "put"]

\* DfpMiniCh._send_command(cmd_, param_) entered by task t for call:
\* Lock.acquire() takes a free lock without suspending, else queues the task
mini_send_command(t, call) ==
    /\ op' = [op EXCEPT ![t] = call]
    /\ call_log' = Append(call_log, <<t, call.cmd, call.param>>)
    /\ IF tx_lock = "free"
       THEN /\ mini_send_body(t, call.cmd, call.param)
            /\ UNCHANGED lock_q
       ELSE /\ lock_q' = Append(lock_q, t)
            /\ pc' = [pc EXCEPT ![t] = "lock_wait"]
            /\ UNCHANGED <<tx_lock, ack_ev, tx_message, wire, acked_since,
                           play_pending, fin_since>>

\* task t, between calls, calls name_(arg_) on the player
enter(t, name_, arg_) ==
    /\ pc[t] = "idle"
    /\ calls[t] < MaxCalls
    /\ last_call' = [last_call EXCEPT
                        ![t] = [name |-> name_, arg |-> arg_,
                                from |-> Len(call_log)]]

\* DfPlayer.play_track without the range test
player_play_track_no_check(t, n) ==
    /\ enter(t, "play_track", <<n>>)
    /\ task_exc' = [task_exc EXCEPT ![t] = "none"]
    /\ mini_send_command(t, [kind |-> "play_track", cmd |-> 3, param |-> n])
    /\ UNCHANGED <<calls, n_ret>>
    /\ UNCHANGED <<rx_side, track_end_ev, track, config, player_vars, todo,
                   rst_rx>>

\* DfPlayer.play_track(track) called by task t: a track outside
\* START_TRACK..track_count returns at once
player_play_track(t, n) ==
    /\ enter(t, "play_track", <<n>>)
    /\ task_exc' = [task_exc EXCEPT ![t] = "none"]
    /\ IF START_TRACK <= n /\ n <= track_count
       THEN /\ mini_send_command(t, [kind |-> "play_track", cmd |-> 3,
                                     param |-> n])
            /\ UNCHANGED <<calls, n_ret>>
       ELSE /\ calls' = [calls EXCEPT ![t] = calls[t] + 1]
            /\ UNCHANGED <<pc, n_ret, link_vars>>
    /\ UNCHANGED <<rx_side, track_end_ev, track, config, player_vars, todo,
                   rst_rx>>

\* play_track_after with an edge-triggered wait: it suspends until the next
\* set() even when track_end_ev is set
RECURSIVE play_trk_list_edge(_, _)
play_trk_list_edge(list_, resumed) ==
    IF list_ = <<>> THEN [at |-> "end", list |-> <<>>]
    ELSE IF ~resumed THEN [at |-> "wait", list |-> list_]
    ELSE IF START_TRACK <= Head(list_) /\ Head(list_) <= track_count
    THEN [at |-> "send", list |-> list_]
    ELSE play_trk_list_edge(Tail(list_), FALSE)

\* the loop of DfPlayer.play_trk_list over list_, run until it suspends or
\* sends: play_track_after returns from track_end_ev.wait() at once when
\* the event is set (or when the task was resumed by set(): resumed), and
\* play_track returns at once for a track outside START_TRACK..track_count.
\* at is "wait" (suspended in wait() for Head(list)), "send" (play_track
\* sends Head(list)) or "end" (the list is exhausted)
RECURSIVE play_trk_list_upto(_, _)
play_trk_list_upto(list_, resumed) ==
    IF list_ = <<>> THEN [at |-> "end", list |-> <<>>]
    ELSE IF ~(resumed \/ track_end_ev) THEN [at |-> "wait", list |-> list_]
    ELSE IF START_TRACK <= Head(list_) /\ Head(list_) <= track_count
    THEN [at |-> "send", list |-> list_]
    ELSE play_trk_list_upto(Tail(list_), FALSE)

\* DfPlayer.play_trk_list(list_) run by task t from its start or from a
\* resumption, up to its next suspension
play_trk_list(t, list_, resumed) ==
    LET a == play_trk_list_upto(list_, resumed)
    IN  CASE a.at = "send" ->
                /\ mini_send_command(t, [kind |-> "play_track", cmd |-> 3,
                                         param |-> Head(a.list)])
                /\ todo' = [todo EXCEPT ![t] = Tail(a.list)]
                /\ UNCHANGED calls
          [] a.at = "wait" ->
                /\ pc' = [pc EXCEPT ![t] = "wait_te"]
                /\ todo' = [todo EXCEPT ![t] = a.list]
                /\ UNCHANGED <<calls, link_vars>>
          [] a.at = "end" ->
                /\ pc' = [pc EXCEPT ![t] = "idle"]
                /\ todo' = [todo EXCEPT ![t] = <<>>]
                /\ calls' = [calls EXCEPT ![t] = calls[t] + 1]
                /\ UNCHANGED link_vars

\* DfPlayer.play_trk_list(list_) called by task t; play_track_after(n) is
\* the call with the list <<n>>
player_play_trk_list(t, list_) ==
    /\ enter(t, "play_trk_list", list_)
    /\ task_exc' = [task_exc EXCEPT ![t] = "none"]
    /\ play_trk_list(t, list_, FALSE)
    /\ UNCHANGED <<rx_side, track_end_ev, track, config, player_vars, n_ret,
                   rst_rx>>

\* next_track without the wrap to START_TRACK
next_track_no_wrap(t) ==
    LET index == track_index + 1
    IN  /\ enter(t, "next_track", <<>>)
        /\ task_exc' = [task_exc EXCEPT ![t] = "none"]
        /\ track_index' = index
        /\ play_trk_list(t, <<index>>, FALSE)
        /\ UNCHANGED <<rx_side, track_end_ev, track, config, vol, eq, n_ret,
                       rst_rx>>

\* DfPlayer.next_track() called by task t
next_track(t) ==
    LET index == IF track_index + 1 > track_count THEN START_TRACK
                 ELSE track_index + 1
    IN  /\ enter(t, "next_track", <<>>)
        /\ task_exc' = [task_exc EXCEPT ![t] = "none"]
        /\ track_index' = index
        /\ play_trk_list(t, <<index>>, FALSE)
        /\ UNCHANGED <<rx_side, track_end_ev, track, config, vol, eq, n_ret,
                       rst_rx>>

\* DfPlayer.prev_track() called by task t
prev_track_(t) ==
    LET index == IF track_index - 1 < START_TRACK THEN track_count
                 ELSE track_index - 1
    IN  /\ enter(t, "prev_track", <<>>)
        /\ task_exc' = [task_exc EXCEPT ![t] = "none"]
        /\ track_index' = index
        /\ play_trk_list(t, <<index>>, FALSE)
        /\ UNCHANGED <<rx_side, track_end_ev, track, config, vol, eq, n_ret,
                       rst_rx>>

\* play_track_after resumed by track_end_ev.set(): wait() returns, then
\* play_track and the rest of the loop run
play_track_after(t) ==
    /\ pc[t] = "te_woken"
    /\ play_trk_list(t, todo[t], TRUE)
    /\ UNCHANGED <<rx_side, track_end_ev, track, config, player_vars, task_exc,
                   last_call, n_ret, rst_rx>>

\* DfpMiniControl.reset() called by task t
mini_reset(t) ==
    /\ enter(t, "reset", <<>>)
    /\ task_exc' = [task_exc EXCEPT ![t] = "none"]
    /\ rst_rx' = [rst_rx EXCEPT ![t] = <<>>]
    /\ mini_send_command(t, [kind |-> "reset", cmd |-> 12, param |-> 0])
    /\ UNCHANGED <<rx_side, track_end_ev, track, config, player_vars, calls,
                   todo, n_ret>>

\* DfpMiniControl.set_vol(level) called by task t
mini_set_vol(t, level) ==
    /\ enter(t, "mini_set_vol", <<level>>)
    /\ task_exc' = [task_exc EXCEPT ![t] = "none"]
    /\ mini_send_command(t, [kind |-> "set_vol", cmd |-> 6, param |-> level])
    /\ UNCHANGED <<rx_side, track_end_ev, track, config, player_vars, calls,
                   todo, n_ret, rst_rx>>

\* DfPlayer.set_vol(level_) called by task t: update_vol stores the scaled
\* level in config and calls command_h.set_vol() without the level
\* argument, which raises TypeError before anything is sent
player_set_vol(t, level_) ==
    /\ enter(t, "set_vol", <<level_>>)
    /\ IF vol # level_
       THEN /\ vol' = level_
            /\ config' = [config EXCEPT !.vol = level_ * vol_factor]
            /\ task_exc' = [task_exc EXCEPT ![t] = "TypeError"]
       ELSE /\ task_exc' = [task_exc EXCEPT ![t] = "none"]
            /\ UNCHANGED <<vol, config>>
    /\ calls' = [calls EXCEPT ![t] = calls[t] + 1]
    /\ UNCHANGED <<rx_side, track_end_ev, track, eq, track_index, pc, todo,
                   link_vars, n_ret, rst_rx>>

\* DfPlayer.VOL_MAX
VOL_MAX == 10

\* DfPlayer.update_vol() run by task t after self.vol was set to v: the
\* scaled level is stored in config, then command_h.set_vol() is called
\* without the level argument and raises TypeError before anything is sent
update_vol(t, v) ==
    /\ vol' = v
    /\ config' = [config EXCEPT !.vol = v * vol_factor]
    /\ task_exc' = [task_exc EXCEPT ![t] = "TypeError"]

\* DfPlayer.inc_vol() called by task t
inc_vol(t) ==
    /\ enter(t, "inc_vol", <<>>)
    /\ IF vol < VOL_MAX
       THEN update_vol(t, vol + 1)
       ELSE /\ task_exc' = [task_exc EXCEPT ![t] = "none"]
            /\ UNCHANGED <<vol, config>>
    /\ calls' = [calls EXCEPT ![t] = calls[t] + 1]
    /\ UNCHANGED <<rx_side, track_end_ev, track, eq, track_index, pc, todo,
                   link_vars, n_ret, rst_rx>>

\* DfPlayer.dec_vol() called by task t
dec_vol(t) ==
    /\ enter(t, "dec_vol", <<>>)
    /\ IF vol > 0
       THEN update_vol(t, vol - 1)
       ELSE /\ task_exc' = [task_exc EXCEPT ![t] = "none"]
            /\ UNCHANGED <<vol, config>>
    /\ calls' = [calls EXCEPT ![t] = calls[t] + 1]
    /\ UNCHANGED <<rx_side, track_end_ev, track, eq, track_index, pc, todo,
                   link_vars, n_ret, rst_rx>>

\* the names of DfpMiniCh.eq_val
EqNames == {val_eq[i] : i \in 1..Len(val_eq)}

\* DfpMiniCh.eq_val
eq_val == [k \in EqNames |-> CHOOSE i \in 0..5 : val_eq[i + 1] = k]

\* DfPlayer.set_eq(eq_name) called by task t: update_eq stores the name in
\* config and calls command_h.set_eq() without the name argument, which
\* raises TypeError before anything is sent
player_set_eq(t, eq_name) ==
    /\ enter(t, "set_eq", <<eq_name>>)
    /\ IF eq # eq_name
       THEN /\ eq' = eq_name
            /\ config' = [config EXCEPT !.eq = eq_name]
            /\ task_exc' = [task_exc EXCEPT ![t] = "TypeError"]
       ELSE /\ task_exc' = [task_exc EXCEPT ![t] = "none"]
            /\ UNCHANGED <<eq, config>>
    /\ calls' = [calls EXCEPT ![t] = calls[t] + 1]
    /\ UNCHANGED <<rx_side, track_end_ev, track, vol, track_index, pc, todo,
                   link_vars, n_ret, rst_rx>>

\* DfpMiniControl.set_eq(eq_key) called by task t: a key outside eq_val
\* returns at once
mini_set_eq(t, eq_key) ==
    /\ enter(t, "mini_set_eq", <<eq_key>>)
    /\ task_exc' = [task_exc EXCEPT ![t] = "none"]
    /\ IF eq_key \in DOMAIN eq_val
       THEN /\ mini_send_command(t, [kind |-> "set_eq", cmd |-> 7,
                                     param |-> eq_val[eq_key]])
            /\ UNCHANGED calls
       ELSE /\ calls' = [calls EXCEPT ![t] = calls[t] + 1]
            /\ UNCHANGED <<pc, link_vars>>
    /\ UNCHANGED <<rx_side, track_end_ev, track, config, player_vars, todo,
                   n_ret, rst_rx>>

\* _send_command resumed with the lock handed over by release()
mini_lock_granted(t) ==
    /\ pc[t] = "lock_granted"
    /\ mini_send_body(t, op[t].cmd, op[t].param)
    /\ UNCHANGED <<rx_side, track_end_ev, track, config, player_vars,
                   lock_q, op, calls, call_vars, call_log, n_ret, rst_rx>>

\* _send_command with an ack wait that gives up: the task goes on to
\* sleep_ms(20) whether or not ack_ev is set
mini_put_done_timeout(t) ==
    /\ pc[t] = "put"
    /\ pc' = [pc EXCEPT ![t] = "sleep"]
    /\ UNCHANGED <<eng_vars, dfp_vars, player_vars, tx_message, op, calls,
                   call_vars, obs_vars, play_obs>>

\* _send_command resumed after tx_queue.put(): "await ack_ev.wait()" goes on
\* to sleep_ms(20) at once when ack_ev is set, else the task suspends
mini_put_done(t) ==
    /\ pc[t] = "put"
    /\ pc' = [pc EXCEPT ![t] = IF ack_ev THEN "sleep" ELSE "wait_ack"]
    /\ UNCHANGED <<eng_vars, dfp_vars, player_vars, tx_message, op, calls,
                   call_vars, obs_vars, play_obs>>

\* _send_command resumed by ack_ev.set(): starts sleep_ms(20)
mini_acked(t) ==
    /\ pc[t] = "acked"
    /\ pc' = [pc EXCEPT ![t] = "sleep"]
    /\ UNCHANGED <<eng_vars, dfp_vars, player_vars, tx_message, op, calls,
                   call_vars, obs_vars, play_obs>>

\* Lock.release(): the lock goes to the first waiting task, which is
\* scheduled, or becomes free
release ==
    IF lock_q = <<>>
    THEN /\ tx_lock' = "free"
         /\ UNCHANGED lock_q
    ELSE /\ tx_lock' = Head(lock_q)
         /\ lock_q' = Tail(lock_q)

\* the task positions after task t returns and release() has run
ReleasedPc(t) ==
    [u \in Tasks |->
        IF u = t THEN "idle"
        ELSE IF lock_q # <<>> /\ u = Head(lock_q) THEN "lock_granted"
        ELSE pc[u]]

\* play_track without "self.track_end_ev.clear()": the next
\* play_track_after finds track_end_ev as it was
play_track_keeps_te(t) ==
    /\ pc[t] = "sleep"
    /\ op[t].kind = "play_track"
    /\ release
    /\ track' = op[t].param
    /\ pc' = [ReleasedPc(t) EXCEPT
                 ![t] = IF todo[t] = <<>> THEN "idle"
                        ELSE IF track_end_ev THEN "te_woken" ELSE "wait_te"]
    /\ op' = [op EXCEPT ![t] = NoCall]
    /\ calls' = IF todo[t] = <<>> THEN [calls EXCEPT ![t] = calls[t] + 1]
                ELSE calls
    /\ n_ret' = n_ret + 1
    /\ UNCHANGED <<rx_side, ack_ev, track_end_ev, config, player_vars,
                   call_vars, tx_message, wire, call_log, acked_since,
                   play_pending, play_obs>>

\* DfpMiniControl.play_track(track) from the end of sleep_ms(20) in
\* _send_command: the lock is released, then track_end_ev is cleared and
\* track recorded, and DfPlayer.play_track returns; inside play_trk_list
\* the next play_track_after then suspends on the cleared track_end_ev
play_track(t) ==
    /\ pc[t] = "sleep"
    /\ op[t].kind = "play_track"
    /\ release
    /\ track_end_ev' = FALSE
    /\ track' = op[t].param
    /\ pc' = [ReleasedPc(t) EXCEPT
                 ![t] = IF todo[t] = <<>> THEN "idle" ELSE "wait_te"]
    /\ op' = [op EXCEPT ![t] = NoCall]
    /\ calls' = IF todo[t] = <<>> THEN [calls EXCEPT ![t] = calls[t] + 1]
                ELSE calls
    /\ n_ret' = n_ret + 1
    /\ UNCHANGED <<rx_side, ack_ev, config, player_vars, call_vars,
                   tx_message, wire, call_log, acked_since, play_pending,
                   play_obs>>

\* DfpMiniControl.set_vol(level) from the end of sleep_ms(20) in
\* _send_command: the lock is released and config['vol'] assigned
set_vol(t) ==
    /\ pc[t] = "sleep"
    /\ op[t].kind = "set_vol"
    /\ release
    /\ config' = [config EXCEPT !.vol = op[t].param]
    /\ pc' = ReleasedPc(t)
    /\ op' = [op EXCEPT ![t] = NoCall]
    /\ calls' = [calls EXCEPT ![t] = calls[t] + 1]
    /\ n_ret' = n_ret + 1
    /\ UNCHANGED <<rx_side, ack_ev, track_end_ev, track, player_vars,
                   call_vars, tx_message, wire, call_log, acked_since,
                   play_pending, play_obs>>

\* DfpMiniControl.set_eq(eq_key) from the end of sleep_ms(20) in
\* _send_command: the lock is released and config['eq'] assigned
set_eq(t) ==
    /\ pc[t] = "sleep"
    /\ op[t].kind = "set_eq"
    /\ release
    /\ config' = [config EXCEPT !.eq = last_call[t].arg[1]]
    /\ pc' = ReleasedPc(t)
    /\ op' = [op EXCEPT ![t] = NoCall]
    /\ calls' = [calls EXCEPT ![t] = calls[t] + 1]
    /\ n_ret' = n_ret + 1
    /\ UNCHANGED <<rx_side, ack_ev, track_end_ev, track, player_vars,
                   call_vars, tx_message, wire, call_log, acked_since,
                   play_pending, play_obs>>

\* DfpMiniControl.reset() from the end of sleep_ms(20) in _send_command:
\* the lock is released and sleep_ms(2000) starts
reset_sleep(t) ==
    /\ pc[t] = "sleep"
    /\ op[t].kind = "reset"
    /\ release
    /\ pc' = [ReleasedPc(t) EXCEPT ![t] = "reset_sleep"]
    /\ n_ret' = n_ret + 1
    /\ UNCHANGED <<rx_side, ack_ev, track_end_ev, track, config, player_vars,
                   op, calls, call_vars, tx_message, wire, call_log,
                   acked_since, play_pending, play_obs>>

\* reset testing rx_cmd against ack (0x41) instead of query_init (0x3f)
reset_raises_unless_ack(rx_cmd_) ==
    IF rx_cmd_ # 65 THEN "DFPlayer no ACK." ELSE "none"

\* the exception DfpMiniControl.reset raises after sleep_ms(2000), or "none"
reset_raises(rx_cmd_) ==
    IF rx_cmd_ # 63
    THEN IF rx_cmd_ = 65 THEN "DFPlayer ACK with error: no SD card?"
         ELSE "DFPlayer no ACK."
    ELSE "none"

\* DfpMiniControl.reset() from the end of sleep_ms(2000): rx_cmd is tested
reset(t) ==
    /\ pc[t] = "reset_sleep"
    /\ task_exc' = [task_exc EXCEPT ![t] = reset_raises(rx_cmd)]
    /\ pc' = [pc EXCEPT ![t] = "idle"]
    /\ op' = [op EXCEPT ![t] = NoCall]
    /\ calls' = [calls EXCEPT ![t] = calls[t] + 1]
    /\ UNCHANGED <<eng_vars, dfp_vars, player_vars, todo, last_call,
                   tx_message, obs_vars, play_obs>>

\* evaluate_rx_message without the media_remove branch
evaluate_raises_no_remove(rx_cmd_, rx_param_) ==
    CASE rx_cmd_ = 63 /\ (rx_param_ \div 2) % 2 # 1 ->
             "DFPlayer error: no SD-card?"
      [] rx_cmd_ = 68 /\ rx_param_ \notin 0..5 -> "KeyError"
      [] OTHER -> "none"

\* the exception evaluate_rx_message raises, or "none"
evaluate_raises(rx_cmd_, rx_param_) ==
    CASE rx_cmd_ = 63 /\ (rx_param_ \div 2) % 2 # 1 ->
             "DFPlayer error: no SD-card?"
      [] rx_cmd_ = 68 /\ rx_param_ \notin 0..5 -> "KeyError"
      [] rx_cmd_ = 59 -> "DFPlayer error: SD-card removed!"
      [] OTHER -> "none"

\* task t has sent the frame of a reset and reset has not ended
InReset(t) ==
    /\ op[t].kind = "reset"
    /\ pc[t] \in {"put", "wait_ack", "acked", "sleep", "reset_sleep"}

\* DfpMiniCh.consume_rx_data, one turn of its loop: rx_queue.get() returns
\* ba_, unpack_rx_ba(ba_) is stored in rx_cmd and rx_param, then
\* evaluate_rx_message(rx_cmd, rx_param) acts on them
mini_consume_rx_data(ba_) ==
    LET cmd == unpack_rx_ba(ba_)[1]
        prm == unpack_rx_ba(ba_)[2]
        ex_ == evaluate_raises(cmd, prm)
    IN  /\ cons_pc = "run"
        /\ n_rx' = n_rx + 1
        /\ last_ba' = ba_
        /\ rx_cmd' = cmd
        /\ rx_param' = prm
        /\ raised' = ex_
        /\ cons_pc' = IF ex_ = "none" THEN "run" ELSE "dead"
        /\ ack_ev' = IF cmd = 65 THEN TRUE ELSE ack_ev
        /\ pc' = CASE cmd = 65 -> WakeAck(pc)
                   [] cmd = 61 -> WakeTe(pc)
                   [] OTHER -> pc
        /\ track_end_ev' = IF cmd = 61 THEN TRUE ELSE track_end_ev
        /\ error_ev' = IF cmd = 64 THEN TRUE ELSE error_ev
        /\ config' = CASE cmd = 67 -> [config EXCEPT !.vol = prm]
                       [] cmd = 68 /\ prm \in 0..5 ->
                              [config EXCEPT !.eq = val_eq[prm + 1]]
                       [] OTHER -> config
        /\ track_count' = IF cmd = 72 THEN prm ELSE track_count
        /\ track' = IF cmd = 76 THEN prm ELSE track
        /\ n_acks' = IF cmd = 65 THEN n_acks + 1 ELSE n_acks
        /\ acked_since' = IF cmd = 65 THEN [t \in Tasks |-> TRUE]
                          ELSE acked_since
        /\ play_pending' = IF cmd = 61 THEN FALSE ELSE play_pending
        /\ fin_since' = IF cmd = 61 THEN [t \in Tasks |-> TRUE]
                        ELSE fin_since
        /\ rst_rx' = [t \in Tasks |->
                         IF InReset(t) THEN Append(rst_rx[t], <<cmd, prm>>)
                         ELSE rst_rx[t]]
        /\ UNCHANGED <<tx_lock, lock_q, player_vars, tx_message, op, calls,
                       call_vars, wire, call_log, n_ret>>

\* the parts of the state the player specifications never touch
dfp_idle_vars ==
    <<c_phase, c_in, c_frame, c_rx, c_out, c_err, c_reused, queue_vars,
      q_last, stream_vars, ch_vars>>

\* DfpMiniControl and DfPlayer constructed; DfPlayer.__init__ sets
\* track_end_ev (no track playing yet)
DfpInit ==
    /\ CodecInit
    /\ QueueInit(MaxCap)
    /\ StreamInit
    /\ EngInit
    /\ track_end_ev = TRUE
    /\ CommandHandlerInit
    /\ DfpMiniInit
    /\ PlayerInit
    /\ TaskInit
    /\ ObsInit

DfpPlayTrack ==
    /\ \E t \in Tasks, n \in PlayArgs : player_play_track(t, n)
    /\ UNCHANGED dfp_idle_vars

DfpLockGranted ==
    /\ \E t \in Tasks : mini_lock_granted(t)
    /\ UNCHANGED dfp_idle_vars

DfpPutDone ==
    /\ \E t \in Tasks : mini_put_done(t)
    /\ UNCHANGED dfp_idle_vars

DfpAcked ==
    /\ \E t \in Tasks : mini_acked(t)
    /\ UNCHANGED dfp_idle_vars

DfpPlayTrackEnd ==
    /\ \E t \in Tasks : play_track(t)
    /\ UNCHANGED dfp_idle_vars

DfpConsume ==
    /\ n_rx < MaxFrames
    /\ \E ba_ \in DfpRxFrames : mini_consume_rx_data(ba_)
    /\ UNCHANGED dfp_idle_vars

DfpNext ==
    \/ DfpPlayTrack
    \/ DfpLockGranted
    \/ DfpPutDone
    \/ DfpAcked
    \/ DfpPlayTrackEnd
    \/ DfpConsume

SpecDfp == DfpInit /\ [][DfpNext]_vars

\* ---- a device that acknowledges every frame it receives, under fair
\* scheduling of the tasks ----

\* frames the device sends besides acks: sd_finish 1, qry_sd_files 2, error,
\* media_insert, media_remove, qry_init 2, ack with bad checksum, an opcode
\* outside the table
AckedRxFrames ==
    {DeviceFrame(61, 1), DeviceFrame(72, 2), DeviceFrame(64, 0),
     DeviceFrame(58, 0), DeviceFrame(59, 0), DeviceFrame(63, 2),
     BadFrame(65, 0), DeviceFrame(80, 0)}

\* the consumer classifies the ack of a transmitted frame that has none yet
AckedDevAck ==
    /\ n_acks < Len(wire)
    /\ mini_consume_rx_data(DeviceFrame(65, 0))
    /\ UNCHANGED dfp_idle_vars

\* the consumer classifies another frame
AckedConsume ==
    /\ n_rx - n_acks < MaxFrames
    /\ \E ba_ \in AckedRxFrames : mini_consume_rx_data(ba_)
    /\ UNCHANGED dfp_idle_vars

\* the steps of the caller tasks the scheduler runs once they are ready
AckedTaskStep(t) ==
    /\ \/ mini_lock_granted(t)
       \/ mini_put_done(t)
       \/ mini_acked(t)
       \/ play_track(t)
    /\ UNCHANGED dfp_idle_vars

AckedNext ==
    \/ DfpPlayTrack
    \/ DfpLockGranted
    \/ DfpPutDone
    \/ DfpAcked
    \/ DfpPlayTrackEnd
    \/ AckedDevAck
    \/ AckedConsume

\* uasyncio runs every ready task, and the device acknowledges every frame
AckedFairness ==
    /\ \A t \in Tasks : WF_vars(AckedTaskStep(t))
    /\ WF_vars(AckedDevAck)

SpecAcked == DfpInit /\ [][AckedNext]_vars /\ AckedFairness

\* ---- playlists and the playback cursor ----

\* the task that plays lists and moves the cursor; the other task calls
\* play_track meanwhile
ListTasks == {"t1"}

\* the lists ListTasks pass to DfPlayer.play_trk_list
PlayLists == {<<1, 2>>, <<2, 3, 1>>}

\* frames the device sends while tracks play: ack, sd_finish 1,
\* qry_sd_files 2, qry_sd_files 1
ListRxFrames ==
    {DeviceFrame(65, 0), DeviceFrame(61, 1), DeviceFrame(72, 2),
     DeviceFrame(72, 1)}

ListPlayTrkList ==
    /\ \E t \in ListTasks, list_ \in PlayLists :
           player_play_trk_list(t, list_)
    /\ UNCHANGED dfp_idle_vars

ListNextTrack ==
    /\ \E t \in ListTasks : next_track(t)
    /\ UNCHANGED dfp_idle_vars

ListPrevTrack ==
    /\ \E t \in ListTasks : prev_track_(t)
    /\ UNCHANGED dfp_idle_vars

ListTrackAfter ==
    /\ \E t \in Tasks : play_track_after(t)
    /\ UNCHANGED dfp_idle_vars

ListConsume ==
    /\ n_rx < MaxFrames
    /\ \E ba_ \in ListRxFrames : mini_consume_rx_data(ba_)
    /\ UNCHANGED dfp_idle_vars

ListPlayTrack ==
    /\ \E t \in Tasks \ ListTasks, n \in PlayArgs : player_play_track(t, n)
    /\ UNCHANGED dfp_idle_vars

ListNext ==
    \/ ListPlayTrack
    \/ ListPlayTrkList
    \/ ListNextTrack
    \/ ListPrevTrack
    \/ ListTrackAfter
    \/ DfpLockGranted
    \/ DfpPutDone
    \/ DfpAcked
    \/ DfpPlayTrackEnd
    \/ ListConsume

SpecList == DfpInit /\ [][ListNext]_vars

\* ---- one task plays lists on a device that acknowledges every frame and
\* reports the end of every track it started once, under fair scheduling ----

\* the device answers qry_sd_files: two tracks on the card
PlayedQuery ==
    /\ n_rx < MaxFrames
    /\ mini_consume_rx_data(DeviceFrame(72, 2))
    /\ UNCHANGED dfp_idle_vars

\* the consumer classifies the ack of a transmitted frame that has none yet
PlayedDevAck ==
    /\ n_acks < Len(wire)
    /\ mini_consume_rx_data(DeviceFrame(65, 0))
    /\ UNCHANGED dfp_idle_vars

\* the consumer classifies the sd_finish of the track the device started
\* last, sent once and after the ack of its command
PlayedDevFinish ==
    /\ play_pending
    /\ n_acks = Len(wire)
    /\ mini_consume_rx_data(DeviceFrame(61, track_of(wire[Len(wire)])))
    /\ UNCHANGED dfp_idle_vars

\* the steps of the list task the scheduler runs once it is ready
PlayedTaskStep(t) ==
    /\ \/ mini_put_done(t)
       \/ mini_acked(t)
       \/ play_track(t)
       \/ play_track_after(t)
    /\ UNCHANGED dfp_idle_vars

PlayedNext ==
    \/ ListPlayTrkList
    \/ ListTrackAfter
    \/ DfpPutDone
    \/ DfpAcked
    \/ DfpPlayTrackEnd
    \/ PlayedQuery
    \/ PlayedDevAck
    \/ PlayedDevFinish

\* uasyncio runs every ready task; the device acknowledges every frame and
\* reports the end of every track
PlayedFairness ==
    /\ \A t \in ListTasks : WF_vars(PlayedTaskStep(t))
    /\ WF_vars(PlayedDevAck)
    /\ WF_vars(PlayedDevFinish)

SpecPlayed == DfpInit /\ [][PlayedNext]_vars /\ PlayedFairness

\* ---- reset and volume ----

\* the task that resets the player and sets the volume through DfPlayer;
\* the other task calls play_track and DfpMiniControl.set_vol meanwhile
CtlTasks == {"t1"}

\* the levels CtlTasks pass to DfPlayer.set_vol
VolArgs == {5, 6}

\* the level the other task passes to DfpMiniControl.set_vol
MiniVolArgs == {18}

\* frames the device sends around a reset: ack, query_init with and without
\* the storage bit, qry_sd_files 2
CtlRxFrames ==
    {DeviceFrame(65, 0), DeviceFrame(63, 2), DeviceFrame(63, 0),
     DeviceFrame(72, 2)}

CtlSetVol ==
    /\ \E t \in CtlTasks, level_ \in VolArgs : player_set_vol(t, level_)
    /\ UNCHANGED dfp_idle_vars

CtlReset ==
    /\ \E t \in CtlTasks : mini_reset(t)
    /\ UNCHANGED dfp_idle_vars

CtlMiniSetVol ==
    /\ \E t \in Tasks \ CtlTasks, level \in MiniVolArgs :
           mini_set_vol(t, level)
    /\ UNCHANGED dfp_idle_vars

CtlSetVolEnd ==
    /\ \E t \in Tasks : set_vol(t)
    /\ UNCHANGED dfp_idle_vars

CtlResetSleep ==
    /\ \E t \in Tasks : reset_sleep(t)
    /\ UNCHANGED dfp_idle_vars

CtlResetEnd ==
    /\ \E t \in Tasks : reset(t)
    /\ UNCHANGED dfp_idle_vars

CtlConsume ==
    /\ n_rx < MaxFrames
    /\ \E ba_ \in CtlRxFrames : mini_consume_rx_data(ba_)
    /\ UNCHANGED dfp_idle_vars

CtlPlayTrack ==
    /\ \E t \in Tasks \ CtlTasks, n \in PlayArgs : player_play_track(t, n)
    /\ UNCHANGED dfp_idle_vars

CtlNext ==
    \/ CtlPlayTrack
    \/ CtlSetVol
    \/ CtlReset
    \/ CtlMiniSetVol
    \/ DfpLockGranted
    \/ DfpPutDone
    \/ DfpAcked
    \/ DfpPlayTrackEnd
    \/ CtlSetVolEnd
    \/ CtlResetSleep
    \/ CtlResetEnd
    \/ CtlConsume

SpecCtl == DfpInit /\ [][CtlNext]_vars

\* ---- volume and equalizer ----

\* the configuration records get_config() may find stored: the defaults and
\* the ends of the volume range
StoredConfigs ==
    {[vol |-> v, eq |-> e] : v \in {0, 15, 30}, e \in {"normal"}}

\* DfpMiniControl and DfPlayer constructed over a stored configuration
LoadedInit ==
    /\ CodecInit
    /\ QueueInit(MaxCap)
    /\ StreamInit
    /\ EngInit
    /\ track_end_ev = TRUE
    /\ CommandHandlerInit
    /\ track = 0
    /\ config \in StoredConfigs
    /\ tx_lock = "free"
    /\ lock_q = <<>>
    /\ vol = config.vol \div vol_factor
    /\ eq = config.eq
    /\ track_index = 1
    /\ TaskInit
    /\ ObsInit

\* the task that calls inc_vol, dec_vol and set_eq on DfPlayer; the other
\* task calls DfpMiniControl.set_eq meanwhile, and is the only one to send, so
\* the lock is never contended
VolTasks == {"t1"}

\* the names the caller tasks pass to set_eq: two of the table, one not
EqArgs == {"normal", "rock", "loud"}

\* frames the device sends: ack, query_volume 20, query_init 3 (storage and
\* another bit), an opcode outside the table
VolRxFrames ==
    {DeviceFrame(65, 0), DeviceFrame(67, 20), DeviceFrame(63, 3),
     DeviceFrame(80, 0)}

VolIncVol ==
    /\ \E t \in VolTasks : inc_vol(t)
    /\ UNCHANGED dfp_idle_vars

VolDecVol ==
    /\ \E t \in VolTasks : dec_vol(t)
    /\ UNCHANGED dfp_idle_vars

VolSetEq ==
    /\ \E t \in VolTasks, eq_name \in EqArgs : player_set_eq(t, eq_name)
    /\ UNCHANGED dfp_idle_vars

VolMiniSetEq ==
    /\ \E t \in Tasks \ VolTasks, eq_key \in EqArgs : mini_set_eq(t, eq_key)
    /\ UNCHANGED dfp_idle_vars

VolSetEqEnd ==
    /\ \E t \in Tasks : set_eq(t)
    /\ UNCHANGED dfp_idle_vars

VolConsume ==
    /\ n_rx < MaxFrames
    /\ \E ba_ \in VolRxFrames : mini_consume_rx_data(ba_)
    /\ UNCHANGED dfp_idle_vars

VolNext ==
    \/ VolIncVol
    \/ VolDecVol
    \/ VolSetEq
    \/ VolMiniSetEq
    \/ DfpPutDone
    \/ DfpAcked
    \/ VolSetEqEnd
    \/ VolConsume

SpecVol == LoadedInit /\ [][VolNext]_vars

-----------------------------------------------------------------------------
(* Specifications of the leaf components *)

\* the parts of the state a leaf specification leaves as constructed
EngineIdleInit ==
    /\ EngInit
    /\ track_end_ev = FALSE
    /\ CommandHandlerInit
    /\ DfpMiniInit
    /\ PlayerInit
    /\ TaskInit
    /\ ObsInit

engine_vars ==
    <<eng_vars, ch_vars, dfp_vars, player_vars, task_vars, call_vars,
      obs_vars, play_obs>>

\* ---- codec: pack, then unpack what the line delivers ----
CodecSpecInit ==
    /\ CodecInit
    /\ QueueInit(MaxCap)
    /\ StreamInit
    /\ EngineIdleInit

CodecPack ==
    /\ c_phase = "idle"
    /\ \E command \in hex_str_keys, parameter \in ParamSamples :
           Pack(command, parameter)
    /\ UNCHANGED <<queue_vars, q_last, stream_vars, engine_vars>>

CodecUnpackIntact ==
    /\ UnpackIntact
    /\ UNCHANGED <<queue_vars, q_last, stream_vars, engine_vars>>

CodecUnpackCorrupted ==
    /\ c_phase = "packed"
    /\ \E off \in 1..8, v \in 0..255 : UnpackCorrupted(off, v)
    /\ UNCHANGED <<queue_vars, q_last, stream_vars, engine_vars>>

CodecNextFrame ==
    /\ NextFrame
    /\ UNCHANGED <<queue_vars, q_last, stream_vars, engine_vars>>

CodecNext ==
    \/ CodecPack
    \/ CodecUnpackIntact
    \/ CodecUnpackCorrupted
    \/ CodecNextFrame

SpecCodec == CodecSpecInit /\ [][CodecNext]_vars

\* ---- queue: any sequence of add_item and rmv_item, rmv_item only while
\* is_data is set ----
QueueSpecInit ==
    /\ CodecInit
    /\ \E n \in 1..MaxCap : QueueInit(n)
    /\ StreamInit
    /\ EngineIdleInit

QueueAdd ==
    /\ \E item \in QItems : add_item(item)
    /\ q_last' = IF len_ < max_len THEN "add" ELSE "add_full"
    /\ UNCHANGED <<codec_vars, stream_vars, engine_vars>>

QueueRmv ==
    /\ is_data
    /\ rmv_item
    /\ q_last' = "rmv"
    /\ UNCHANGED <<codec_vars, stream_vars, engine_vars>>

QueueNext ==
    \/ QueueAdd
    \/ QueueRmv

SpecQueue == QueueSpecInit /\ [][QueueNext]_vars

\* ---- queue: any sequence of add_item and rmv_item, rmv_item also while
\* the queue is empty; _len is followed down to -MaxCap ----
QueueRmvAny ==
    /\ len_ > -MaxCap
    /\ rmv_item
    /\ q_last' = IF q_ = <<>> THEN "rmv_empty" ELSE "rmv"
    /\ UNCHANGED <<codec_vars, stream_vars, engine_vars>>

QueueAnyNext ==
    \/ QueueAdd
    \/ QueueRmvAny

SpecQueueAny == QueueSpecInit /\ [][QueueAnyNext]_vars

\* ---- stream: the receiver task pushes, the consumer task pops ----

\* what one readinto() can return: two different full frames, a short read
StreamChunks == {DeviceFrame(65, 0), DeviceFrame(61, 5), <<126, 255, 6>>}

StreamSpecInit ==
    /\ CodecInit
    /\ \E n \in 1..MaxCap : QueueInit(n)
    /\ StreamInit
    /\ EngineIdleInit

StreamRead ==
    /\ \E chunk \in StreamChunks : receiver_read(chunk)
    /\ UNCHANGED <<codec_vars, q_last, engine_vars>>

StreamResume ==
    /\ receiver_resume
    /\ UNCHANGED <<codec_vars, q_last, engine_vars>>

StreamConsume ==
    /\ q_consume
    /\ UNCHANGED <<codec_vars, q_last, engine_vars>>

StreamNext ==
    \/ StreamRead
    \/ StreamResume
    \/ StreamConsume

SpecStream == StreamSpecInit /\ [][StreamNext]_vars

-----------------------------------------------------------------------------
(* Claims *)

\* task t has transmitted a frame and has not yet left send_command
InFlight(t) == pc[t] \in {"drain", "put", "wait_ack", "acked", "sleep"}

\* C1: at most one command is in flight at any time across all callers of
\* send_command: once a caller's frame has been transmitted, no other
\* caller's frame is transmitted until that caller has left send_command.
C1_OneInFlight ==
    Cardinality({t \in Tasks : InFlight(t)}) <= 1

\* frame i on the wire carries the opcode and parameter of call i
CarriesCall(i) ==
    /\ check_checksum(wire[i])
    /\ wire[i][CMD + 1] = call_log[i][2]
    /\ set_reg16(wire[i][P_H + 1], wire[i][P_L + 1]) = call_log[i][3]

\* C2: frames reach the wire in call order, each carrying the opcode and
\* parameter its own caller passed; a call returns only after an ack frame
\* received after its own frame was transmitted; one ack never releases two
\* callers (no more calls have returned than acks were received).
C2_Serialized ==
    [][/\ Len(wire') <= Len(call_log')
       /\ \A i \in 1..Len(wire') : CarriesCall(i)'
       /\ \A t \in Tasks : (InFlight(t) /\ ~InFlight(t)') => acked_since[t]
       /\ n_ret' <= n_acks']_vars

\* consume_rx_data has just popped a frame
Popped == n_rx' = n_rx + 1

\* C7: in CommandHandler, a popped frame whose checksum bytes are wrong,
\* while a send_command is suspended on ack_ev, is dropped whatever its
\* command byte: ack_ev stays unset and the sender stays suspended.
C7_BadFrameDropped ==
    [][(/\ Popped
        /\ ch_check_checksum(rx_word') # 0
        /\ \E t \in Tasks : pc[t] = "wait_ack")
       => (/\ ack_ev' = FALSE
           /\ pc' = pc)]_vars

\* the engine fields a dropped frame must leave alone, rx_cmd and rx_param
\* apart
DerivedState ==
    <<track_count, track, config, ack_ev, track_end_ev, error_ev, cons_pc,
      raised, pc>>

C9_TrackEndClearedAtSend ==
    play_pending => ~track_end_ev

\* C10: when the consumer classifies an sd_finish frame with parameter p,
\* track-end is set and the recorded just-finished track equals p.
C10_FinishedTrackRecorded ==
    [][(Popped /\ last_ba'[CMD + 1] = 61 /\ ch_check_checksum(last_ba') = 0)
       => (/\ track_end_ev'
           /\ prev_track' = set_reg16(last_ba'[P_H + 1], last_ba'[P_L + 1]))
      ]_vars

\* C3: on a Queue of capacity N >= 1, for any sequence of add_item and
\* rmv_item (rmv_item only while data-available is set), the length is
\* within 0..N, data-available is set exactly when length > 0 and
\* space-available is set exactly when length < N.
C3_QueueInvariant ==
    /\ len_ \in 0..max_len
    /\ len_ = Len(q_)
    /\ is_data <=> (len_ > 0)
    /\ is_space <=> (len_ < max_len)

\* C3 witness: an item was removed from a full queue of capacity >= 2
C3_Witness ==
    /\ q_last = "rmv"
    /\ max_len >= 2
    /\ len_ = max_len - 1
    /\ is_data
    /\ is_space

\* the frame the receiver holds while it is suspended on is_space
PendingFrame == IF rcv_pc = "wait_space" THEN <<in_buf>> ELSE <<>>

\* C4: the frames popped, then the frames still queued, then the frame the
\* receiver is holding, are exactly the full-size frames read from the
\* UART, in order: FIFO, nothing lost, duplicated or reordered.
C4_FifoNoLoss ==
    pop_log \o q_ \o PendingFrame = read_log

\* C4 witness: three frames were popped, not all equal, after the receiver
\* had to hold a frame back
C4_Witness ==
    /\ Len(pop_log) >= 3
    /\ pop_log[1] # pop_log[2]
    /\ rcv_pc = "wait_space"

\* C5: unpack_rx_ba(pack_tx_ba(opcode, parameter)) = (opcode, parameter)
\* for every opcode of the table and every parameter, also on a codec object
\* that has packed before.
C5_RoundTrip ==
    (c_phase = "done" /\ c_rx = c_frame) => (c_out = c_in /\ ~c_err)

\* C5 witness: a round trip on a codec object that has packed before
C5_Witness ==
    /\ c_phase = "done"
    /\ c_rx = c_frame
    /\ c_reused
    /\ c_in = <<3, 4660>>
    /\ c_out = <<3, 4660>>

\* C6: replacing the byte at a single offset 1..8 of a validly packed frame
\* by a different value makes checksum verification fail: unpack reports a
\* checksum error and does not return the frame's opcode and parameter.
C6_CorruptionDetected ==
    (c_phase = "done" /\ c_rx # c_frame) => (c_err /\ c_out # c_in)

\* C6 witness: the high checksum byte (offset 7) was replaced and the frame
\* was rejected
C6_Witness ==
    /\ c_phase = "done"
    /\ c_rx[CSM_M + 1] # c_frame[CSM_M + 1]
    /\ c_err
    /\ c_out = <<0, 0>>

\* the parameter of frame i on the wire
WireParam(i) == set_reg16(wire[i][P_H + 1], wire[i][P_L + 1])

\* the wire positions of the track frames task t has transmitted in its
\* current call
TrackFrames(t) ==
    {i \in (last_call[t].from + 1)..Len(wire) :
        call_log[i][1] = t /\ wire[i][CMD + 1] = 3}

\* the tracks task t has transmitted in its current call, in wire order
RECURSIVE TracksFrom(_, _)
TracksFrom(t, i) ==
    IF i > Len(wire) THEN <<>>
    ELSE IF i \in TrackFrames(t) THEN <<WireParam(i)>> \o TracksFrom(t, i + 1)
    ELSE TracksFrom(t, i + 1)

ListTx(t) == TracksFrom(t, 1)

\* the tracks of its list task t has gone past or is sending
ListDone(t) ==
    SubSeq(last_call[t].arg, 1, Len(last_call[t].arg) - Len(todo[t]))

\* a_ is b_ with some elements left out
RECURSIVE IsSubSeq(_, _)
IsSubSeq(a_, b_) ==
    IF a_ = <<>> THEN TRUE
    ELSE IF b_ = <<>> THEN FALSE
    ELSE IF Head(a_) = Head(b_) THEN IsSubSeq(Tail(a_), Tail(b_))
    ELSE IsSubSeq(a_, Tail(b_))

\* task t transmits a frame in this step
Transmits(t) ==
    /\ Len(wire') = Len(wire) + 1
    /\ call_log'[Len(wire')][1] = t

\* C11: in a playlist played by one task, the track commands reach the
\* wire in list order (tracks outside 1..track_count left out), and the
\* command of the next track is transmitted only after an sd_finish frame
\* was classified since the command of the previous track was transmitted.
C11_PlaylistInOrder ==
    [][\A t \in Tasks :
          last_call'[t].name = "play_trk_list"
          => (/\ IsSubSeq(ListTx(t)', ListDone(t)')
              /\ (/\ Transmits(t)
                  /\ last_call'[t] = last_call[t]
                  /\ ListTx(t) # <<>>)
                 => fin_since[t])]_vars

\* C11 witness: of the list 2, 3, 1 with two tracks on the card, track 2
\* and then track 1 were transmitted
C11_Witness ==
    \E t \in Tasks :
        /\ last_call[t].name = "play_trk_list"
        /\ last_call[t].arg = <<2, 3, 1>>
        /\ ListTx(t) = <<2, 1>>
        /\ track_count = 2

\* C12: the signals are level-triggered: no task stays suspended in wait()
\* on a signal that is set, so a task that calls play_track_after while
\* track-end is set (as it is once the facade is created, or after an
\* sd_finish) goes on to play_track without any further frame, and a sender
\* that reaches ack_ev.wait() with ack set goes on at once.
C12_LevelTriggered ==
    \A t \in Tasks :
        /\ pc[t] = "wait_te" => ~track_end_ev
        /\ pc[t] = "wait_ack" => ~ack_ev

\* C12 witness: the only frame received since the facade was created is
\* qry_sd_files 2, no sd_finish, and the first track of a list is on the
\* wire: its play_track_after passed on the track-end set at creation
C12_Witness ==
    \E t \in Tasks :
        /\ last_call[t].name = "play_trk_list"
        /\ n_rx = 1
        /\ rx_cmd = 72
        /\ track_end_ev
        /\ ListTx(t) = <<1>>
        /\ pc[t] = "put"

\* C13: the ack wait of DfpMiniCh._send_command has no timeout: while a
\* sender is suspended waiting for its ack, every step other than the
\* classification of an ack frame leaves it suspended and holding the send
\* lock, and transmits nothing (later callers queue on the lock); a call
\* leaves _send_command only after an ack classified since its frame went
\* out.
C13_NoAckTimeout ==
    [][\A t \in Tasks :
          /\ (pc[t] = "wait_ack" /\ ~(Popped /\ rx_cmd' = 65))
             => (/\ pc'[t] = "wait_ack"
                 /\ tx_lock' = t
                 /\ wire' = wire)
          /\ (InFlight(t) /\ ~InFlight(t)') => acked_since[t]]_vars

\* C13 witness: no ack has come; one task is suspended on the ack of the
\* only frame on the wire, the other is queued on the lock with its call
\* made, and two frames that are not acks have been classified meanwhile
C13_Witness ==
    /\ n_acks = 0
    /\ n_rx = 3
    /\ Len(wire) = 1
    /\ Len(call_log) = 2
    /\ \E t, u \in Tasks :
          /\ pc[t] = "wait_ack"
          /\ tx_lock = t
          /\ pc[u] = "lock_wait"

\* the storage-removed error as the two engines word it
StorageRemoved ==
    {"DFPlayer error: SD-card removed!", "DFPlayer error: SD card removed!"}

\* C14: a media_remove frame popped by the consumer raises the
\* storage-removed error in the consumer, which ends it, whatever the engine
\* state (idle or awaiting an ack) and whatever frames came before.
C14_MediaRemoveRaises ==
    [][(Popped /\ check_checksum(last_ba') /\ last_ba'[CMD_I + 1] = 59)
       => (/\ raised' \in StorageRemoved
           /\ cons_pc' = "dead")]_vars

\* C14 witness: media_remove was popped as the third frame while a sender
\* was waiting for its ack, and the error was raised
C14_Witness ==
    /\ n_rx = 3
    /\ last_ba[CMD_I + 1] = 59
    /\ raised \in StorageRemoved
    /\ cons_pc = "dead"
    /\ \E t \in Tasks : pc[t] = "wait_ack"

\* the frames a healthy device sends in response to reset: ack, then
\* query_init with the storage bit
AckThenInit == <<(<<65, 0>>), (<<63, 2>>)>>

\* C15 as stated: once the device has responded to an in-flight reset with
\* query_init 0x0002, the engine goes back to Idle: the sender of the reset
\* is not left suspended waiting for an ack.
C15_InitFrameEndsReset ==
    \A t \in Tasks :
        (InReset(t) /\ rst_rx[t] = <<(<<63, 2>>)>>) => pc[t] # "wait_ack"

\* C15 amended: when the device responds to reset with an ack frame and
\* then a query_init frame carrying 0x0002, and no other frame is classified
\* before the 2 s wait of reset ends, reset returns without raising, the
\* consumer has raised nothing and the sender no longer holds the send
\* lock; a query_init frame does not resume a sender waiting for its ack.
C15_AckThenInitEndsReset ==
    [][\A t \in Tasks :
          /\ (pc[t] = "reset_sleep" /\ pc'[t] = "idle"
                 /\ rst_rx[t] = AckThenInit)
             => (/\ task_exc'[t] = "none"
                 /\ raised' = "none"
                 /\ cons_pc' = "run"
                 /\ tx_lock' # t)
          /\ (pc[t] = "wait_ack" /\ Popped /\ rx_cmd' = 63)
             => pc'[t] = "wait_ack"]_vars

\* C15 witness: a reset that got ack and then query_init 0x0002 has
\* returned without an exception and the lock is free
C15_Witness ==
    \E t \in Tasks :
        /\ last_call[t].name = "reset"
        /\ pc[t] = "idle"
        /\ rst_rx[t] = AckThenInit
        /\ task_exc[t] = "none"
        /\ raised = "none"
        /\ tx_lock = "free"

\* C16: when a query_init frame without the storage-present bit was
\* classified in response to an in-flight reset, that reset ends with an
\* error raised to its caller and does not return normally.
C16_AbsentStorageFailsReset ==
    [][\A t \in Tasks :
          (/\ pc[t] = "reset_sleep"
           /\ pc'[t] = "idle"
           /\ \E i \in 1..Len(rst_rx[t]) :
                 rst_rx[t][i][1] = 63 /\ (rst_rx[t][i][2] \div 2) % 2 # 1)
          => task_exc'[t] # "none"]_vars

\* no signal is set in this step
NoSignalSet ==
    /\ ack_ev' => ack_ev
    /\ track_end_ev' => track_end_ev
    /\ error_ev' => error_ev

\* C17 as stated: the consumer path is the only writer of shared engine
\* state: a step of a caller-side operation writes neither track_count, the
\* current track, the volume nor the equalizer, and sets no signal.
C17_ConsumerOnlyWriter ==
    [][~Popped => (UNCHANGED <<track_count, track, config>> /\ NoSignalSet)
      ]_vars

\* C17 amended: the consumer path is the only writer of track_count, of the
\* last received opcode and parameter, and the only one to set a signal
\* once the facade is constructed; caller-side operations write the rest
\* (play_track the current track, set_vol and set_eq the volume and
\* equalizer in config) and clear ack and track-end.
C17_ConsumerOnlySetsSignals ==
    [][~Popped => (UNCHANGED <<track_count, rx_cmd, rx_param>> /\ NoSignalSet)
      ]_vars

\* C17 witness: callers have written the current track (play_track) and
\* the volume (DfpMiniControl.set_vol) and cleared track-end, while the
\* consumer set track_count
C17_Witness ==
    /\ track = 1
    /\ config.vol = 18
    /\ ~track_end_ev
    /\ track_count = 2

\* task t has put a vol_set frame with parameter p on the wire in its
\* current call
SentVolSet(t, p) ==
    \E i \in (last_call[t].from + 1)..Len(wire) :
        /\ call_log[i][1] = t
        /\ wire[i][CMD_I + 1] = 6
        /\ WireParam(i) = p

\* C18: when DfPlayer.set_vol(L) returns, the facade volume is L; if L
\* differed from the facade volume at the call, a vol_set frame with
\* parameter L * vol_factor went out during the call; if it was equal, no
\* frame went out.
C18_SetVolSendsScaled ==
    [][\A t \in Tasks :
          (calls'[t] = calls[t] + 1 /\ last_call'[t].name = "set_vol")
          => LET level_ == last_call'[t].arg[1]
             IN  /\ vol' = level_
                 /\ (pc[t] = "idle" /\ vol # level_)
                    => SentVolSet(t, level_ * vol_factor)'
                 /\ (pc[t] = "idle" /\ vol = level_) => wire' = wire]_vars

\* task t calls DfPlayer.play_track in this step
CallsPlayTrack(t) ==
    /\ pc[t] = "idle"
    /\ last_call'[t].name = "play_track"
    /\ pc'[t] # "idle" \/ calls'[t] = calls[t] + 1

\* C19: DfPlayer.play_track(n) hands a track command to the engine only
\* when 1 <= n <= track_count at the call, and that command carries n;
\* otherwise the call returns at once: no frame is transmitted or queued
\* and track-end, the engine's current track and the cursor are unchanged.
C19_PlayTrackInRange ==
    [][\A t \in Tasks :
          /\ CallsPlayTrack(t)
             => LET n == last_call'[t].arg[1]
                IN  IF START_TRACK <= n /\ n <= track_count
                    THEN /\ call_log' = Append(call_log, <<t, 3, n>>)
                         /\ op'[t].param = n
                    ELSE /\ pc'[t] = "idle"
                         /\ UNCHANGED <<wire, call_log, track_end_ev, track,
                                        track_index>>
          /\ (Transmits(t) /\ last_call'[t].name = "play_track")
             => (/\ wire'[Len(wire')][CMD_I + 1] = 3
                 /\ WireParam(Len(wire))' = last_call'[t].arg[1])]_vars

\* C19 witness: with two tracks on the card a task played track 1, then
\* called play_track(3), which returned with nothing sent
C19_Witness ==
    \E t \in Tasks :
        /\ last_call[t].name = "play_track"
        /\ last_call[t].arg = <<3>>
        /\ calls[t] = 2
        /\ track_count = 2
        /\ track = 1
        /\ Len(wire) = 1

\* task t calls DfPlayer.next_track or prev_track (name_) in this step
MovesCursor(t, name_) ==
    /\ pc[t] = "idle"
    /\ last_call'[t].name = name_
    /\ pc'[t] # "idle" \/ calls'[t] = calls[t] + 1

\* C20 as stated: after any next_track or prev_track the cursor is a valid
\* 1-based index, never below 1 and never above track_count.
C20_CursorValid ==
    [][\A t \in Tasks :
          (MovesCursor(t, "next_track") \/ MovesCursor(t, "prev_track"))
          => track_index' \in START_TRACK..track_count]_vars

\* C20 amended: when track_count >= 1 and the cursor is not above
\* track_count at the call, next_track and prev_track leave the cursor in
\* 1..track_count: next_track moves it up by one and wraps from
\* track_count to 1, prev_track moves it down by one and wraps from 1
\* (or 0) to track_count.
C20_CursorValidWithTracks ==
    [][\A t \in Tasks :
          (track_count >= 1 /\ track_index <= track_count)
          => /\ MovesCursor(t, "next_track")
                => (/\ track_index' \in START_TRACK..track_count
                    /\ track_index' = IF track_index = track_count
                                      THEN START_TRACK
                                      ELSE track_index + 1)
             /\ MovesCursor(t, "prev_track")
                => (/\ track_index' \in START_TRACK..track_count
                    /\ track_index' = IF track_index <= START_TRACK
                                      THEN track_count
                                      ELSE track_index - 1)]_vars

\* C20 witness: with two tracks on the card, next_track played track 2 and
\* the following next_track wrapped the cursor to 1
C20_Witness ==
    \E t \in Tasks :
        /\ last_call[t].name = "next_track"
        /\ calls[t] = 1
        /\ track_count = 2
        /\ track = 2
        /\ track_index = 1

\* task t returns from a call named name_ in this step
Returns(t, name_) ==
    calls'[t] = calls[t] + 1 /\ last_call'[t].name = name_

\* C21: when DfPlayer.inc_vol or dec_vol returns, the facade volume is in
\* 0..VOL_MAX; a call that changed the volume sent a vol_set frame whose
\* parameter is the facade volume * vol_factor, within 0..30; a call made at
\* the bound (inc_vol at 10, dec_vol at 0) changed nothing and sent no frame.
C21_IncDecVolSendsScaled ==
    [][\A t \in Tasks :
          (Returns(t, "inc_vol") \/ Returns(t, "dec_vol"))
          => /\ vol' \in 0..VOL_MAX
             /\ vol' * vol_factor \in 0..30
             /\ vol' # vol => SentVolSet(t, vol' * vol_factor)'
             /\ (Returns(t, "inc_vol") /\ vol = VOL_MAX)
                => (vol' = vol /\ wire' = wire)
             /\ (Returns(t, "dec_vol") /\ vol = 0)
                => (vol' = vol /\ wire' = wire)]_vars

\* the part of C21 that the code keeps: the facade volume stays in
\* 0..VOL_MAX and a call at the bound changes nothing and sends nothing
C21_VolClamped ==
    [][\A t \in Tasks :
          (Returns(t, "inc_vol") \/ Returns(t, "dec_vol"))
          => /\ vol' \in 0..VOL_MAX
             /\ (Returns(t, "inc_vol") /\ vol = VOL_MAX)
                => (vol' = vol /\ wire' = wire)
             /\ (Returns(t, "dec_vol") /\ vol = 0)
                => (vol' = vol /\ wire' = wire)]_vars

\* the receiver calls add_item in this step: straight after a full-size
\* read, or when resumed from its wait on is_space
ReceiverAdds ==
    \/ read_log' # read_log /\ rcv_pc' = "read"
    \/ rcv_pc = "wait_space" /\ rcv_pc' = "read"

\* C22: the receiver calls add_item only while the queue has space
\* (is_space set, length below capacity), and the call appends the frame it
\* holds; a full-size frame read from the UART is queued in the same step or
\* held by the suspended receiver, never dropped, whatever the consumer's
\* pops in between.
C22_ReceiverWaitsForSpace ==
    [][/\ ReceiverAdds
          => /\ is_space
             /\ len_ < max_len
             /\ q_' = Append(q_, in_buf')
             /\ len_' = len_ + 1
       /\ read_log' # read_log
          => \/ q_' = Append(q_, read_log'[Len(read_log')])
             \/ /\ rcv_pc' = "wait_space"
                /\ in_buf' = read_log'[Len(read_log')]
                /\ ~is_space]_vars

\* C22 witness: the consumer has popped, the queue is full again and the
\* receiver is suspended on is_space holding a frame different from the
\* queue's head
C22_Witness ==
    /\ rcv_pc = "wait_space"
    /\ ~is_space
    /\ len_ = max_len
    /\ Len(pop_log) >= 1
    /\ in_buf # Head(q_)

\* opcode and parameter of the frame consume_rx_data has just popped
PoppedCmd == last_ba'[CMD + 1]
PoppedParam == set_reg16(last_ba'[P_H + 1], last_ba'[P_L + 1])

\* C23: when CommandHandler's consumer classifies a checksum-valid query
\* response with parameter p, the field of that query takes p (q_vol the
\* volume, q_sd_files track_count, q_sd_trk the current track) and no other
\* derived field or signal changes.
C23_QueryResponseRecorded ==
    [][(/\ Popped
        /\ ch_check_checksum(last_ba') = 0
        /\ PoppedCmd \in {67, 72, 76})
       => (/\ volume' = IF PoppedCmd = 67 THEN PoppedParam ELSE volume
           /\ track_count' = IF PoppedCmd = 72 THEN PoppedParam
                             ELSE track_count
           /\ current_track' = IF PoppedCmd = 76 THEN PoppedParam
                               ELSE current_track
           /\ UNCHANGED <<prev_track, ack_ev, track_end_ev, error_ev>>)
      ]_vars

\* the same for DfpMiniCh, where the volume and the equalizer are config
\* entries and qry_eq stores the table entry val_eq[p]
C23_MiniQueryResponseRecorded ==
    [][(/\ Popped
        /\ check_checksum(last_ba')
        /\ PoppedCmd \in {67, 68, 72, 76}
        /\ PoppedCmd = 68 => PoppedParam \in 0..5)
       => (/\ config' = [config EXCEPT
                            !.vol = IF PoppedCmd = 67 THEN PoppedParam
                                    ELSE @,
                            !.eq = IF PoppedCmd = 68
                                   THEN val_eq[PoppedParam + 1] ELSE @]
           /\ track_count' = IF PoppedCmd = 72 THEN PoppedParam
                             ELSE track_count
           /\ track' = IF PoppedCmd = 76 THEN PoppedParam ELSE track
           /\ UNCHANGED <<ack_ev, track_end_ev, error_ev, cons_pc>>)]_vars

\* bit 0x0002 (storage present) of a parameter
StorageBit(p) == (p \div 2) % 2 = 1

\* C24: a checksum-valid query_init frame popped by CommandHandler's
\* consumer raises the storage-absent error if and only if bit 0x0002 of
\* its parameter is clear; a parameter with the bit set raises nothing and
\* the consumer keeps running.
C24_InitRaisesIffNoStorageBit ==
    [][(/\ Popped
        /\ ch_check_checksum(last_ba') = 0
        /\ PoppedCmd = 63)
       => (/\ raised' # "none" <=> ~StorageBit(PoppedParam)
           /\ cons_pc' = "dead" <=> ~StorageBit(PoppedParam))]_vars

\* the same for DfpMiniCh
C24_MiniInitRaisesIffNoStorageBit ==
    [][(/\ Popped
        /\ check_checksum(last_ba')
        /\ PoppedCmd = 63)
       => (/\ raised' # "none" <=> ~StorageBit(PoppedParam)
           /\ cons_pc' = "dead" <=> ~StorageBit(PoppedParam))]_vars

\* C25: a checksum-valid frame whose opcode is outside the opcode table,
\* popped by CommandHandler's consumer, applies no side effect (no signal
\* changes, no waiting task is resumed, track_count, the tracks and the
\* volume keep their values) and the consumer keeps running, ready to
\* classify the next frame.
C25_UnknownOpcodeIgnored ==
    [][(/\ Popped
        /\ ch_check_checksum(last_ba') = 0
        /\ PoppedCmd \notin hex_str_keys)
       => (/\ UNCHANGED <<ack_ev, track_end_ev, error_ev, pc>>
           /\ UNCHANGED <<track_count, current_track, prev_track, volume>>
           /\ cons_pc' = "run")]_vars

\* the same for DfpMiniCh
C25_MiniUnknownOpcodeIgnored ==
    [][(/\ Popped
        /\ check_checksum(last_ba')
        /\ PoppedCmd \notin hex_str_keys)
       => (/\ UNCHANGED <<ack_ev, track_end_ev, error_ev, pc>>
           /\ UNCHANGED <<track_count, track, config>>
           /\ cons_pc' = "run")]_vars

\* C26: after CommandHandler's consumer has classified a checksum-valid
\* frame, rx_cmd and rx_param are that frame's opcode and parameter, also
\* when the classification raised and when no branch matched.
C26_LastFrameRecorded ==
    [][(Popped /\ ch_check_checksum(last_ba') = 0)
       => (rx_cmd' = PoppedCmd /\ rx_param' = PoppedParam)]_vars

\* the same for DfpMiniCh
C26_MiniLastFrameRecorded ==
    [][(Popped /\ check_checksum(last_ba'))
       => (rx_cmd' = PoppedCmd /\ rx_param' = PoppedParam)]_vars

\* wire w with call log log_ holds, after position from_, a frame of task t
\* with opcode cmd_ and parameter p
FrameSent(w, log_, from_, t, cmd_, p) ==
    \E i \in (from_ + 1)..Len(w) :
        /\ log_[i][1] = t
        /\ w[i][CMD_I + 1] = cmd_
        /\ set_reg16(w[i][P_H + 1], w[i][P_L + 1]) = p

\* C27: when DfPlayer.set_eq(name) returns, an eq_set frame with the table
\* index of name went out during the call if name differed from the facade's
\* equalizer and is one of the six table names; no frame went out if name
\* was the current equalizer or is outside the table; and the facade's and
\* the config's equalizer are names of the table.
C27_SetEqSendsIndex ==
    [][\A t \in Tasks :
          Returns(t, "set_eq")
          => LET name_ == last_call'[t].arg[1]
             IN  /\ (name_ # eq /\ name_ \in EqNames)
                    => FrameSent(wire', call_log', last_call'[t].from, t, 7,
                                 eq_val[name_])
                 /\ (name_ = eq \/ name_ \notin EqNames) => wire' = wire
                 /\ eq' \in EqNames
                 /\ config'.eq \in EqNames]_vars

\* the part of C27 that the code keeps: set_eq with the current name, or
\* with a name outside the table, sends nothing
C27_SetEqNoFrame ==
    [][\A t \in Tasks :
          Returns(t, "set_eq")
          => LET name_ == last_call'[t].arg[1]
             IN  (name_ = eq \/ name_ \notin EqNames) => wire' = wire]_vars

\* C28: rmv_item called on an empty queue fails and leaves the queue as it
\* was: the length stays 0, is_data stays clear, is_space keeps its value
\* and nothing is queued, so that the queue invariant of C3 holds for every
\* add_item and rmv_item that follows.
C28_EmptyRmvKeepsQueue ==
    [][(q_last' = "rmv_empty" /\ len_ = 0)
       => (/\ q_raised'
           /\ len_' = 0
           /\ ~is_data'
           /\ is_space' = is_space
           /\ q_' = <<>>)]_vars

\* the part of C28 that the code keeps: the failed rmv_item leaves the
\* deque and the two signals alone
C28_EmptyRmvKeepsSignals ==
    [][(q_last' = "rmv_empty" /\ len_ = 0)
       => (/\ q_raised'
           /\ UNCHANGED <<q_, is_data, is_space>>)]_vars

\* task t is inside _send_command: queued on the lock, or holding it
InSendCommand(t) ==
    pc[t] \in {"lock_wait", "put", "wait_ack", "acked", "sleep"}

\* C29: with fair scheduling and a device that acknowledges every frame,
\* every _send_command eventually returns and the lock is eventually
\* released, whatever other frames the device sends in between.
C29_SendCommandReturns ==
    /\ \A t \in Tasks : InSendCommand(t) ~> ~InSendCommand(t)
    /\ (tx_lock # "free") ~> (tx_lock = "free")

\* the tracks of a list that are on a card with n tracks
RECURSIVE ValidTracks(_, _)
ValidTracks(list_, n) ==
    IF list_ = <<>> THEN <<>>
    ELSE IF Head(list_) \in 1..n
         THEN <<Head(list_)>> \o ValidTracks(Tail(list_), n)
         ELSE ValidTracks(Tail(list_), n)

\* C30: no track-end event is lost: when every command is acknowledged and
\* every started track is followed by one sd_finish, whenever it arrives,
\* a play_trk_list that has begun eventually returns with the command of
\* every valid track of its list transmitted.
C30_ListPlayedToEnd ==
    \A t \in Tasks :
        (last_call[t].name = "play_trk_list" /\ pc[t] # "idle")
        ~> (/\ pc[t] = "idle"
            /\ ListTx(t) = ValidTracks(last_call[t].arg, track_count))

====
